---- MODULE Spec2Model ----
(***************************************************************************)
(* Model of the completed VirtualList (src/unnamed/part_000): the window   *)
(* manager (cursors start/end, the pool of views, reactions suspended at   *)
(* their getPage call) and the position engine (#updateElementsPosition).  *)
(*                                                                         *)
(* A view is identified by its creation number (1, 2, ...); 0 stands for   *)
(* JavaScript's undefined element.  An element attribute or style that may *)
(* be absent is a sequence: <<>> when absent, <<n>> when it holds n.       *)
(* Element.setAttribute stores the number as its decimal string and y()    *)
(* reads it back with unary plus; for the finite numbers the layout        *)
(* produces that is exact, and the absent / "" / NaN cases all read as     *)
(* null, which is the <<>> here.                                           *)
(***************************************************************************)
EXTENDS Integers, Sequences, FiniteSets, TLC

\* ---- bounds of the model ----
MaxPageSize == 2
MaxCalls == 5
MaxShortCalls == 4

\* measured heights a record's card can have (getBoundingClientRect().height)
Heights == {20, 50}

\* ---- program constants ----
MARGIN == 16

TOP == "top-observer"
BOTTOM == "bottom-observer"

VARIABLES
  props,           \* which of getPage, getTemplate, pageSize the host supplied
  pageSize,        \* props.pageSize, when supplied
  start,           \* this.start
  end,             \* this.end
  pool,            \* this.pool: sequence of view ids
  views,           \* the created elements: views[v] = [datum, dataY, transform]
  pending,         \* reactions suspended at  await getPage(page)
  topSentinel,     \* style.transform of #top-observer
  bottomSentinel,  \* style.transform of #bottom-observer
  calls,           \* the page indices getPage was called with, in call order
  lastOp           \* what the last step did (calls made to the host)

vars == <<props, pageSize, start, end, pool, views, pending, topSentinel,
          bottomSentinel, calls, lastOp>>

LimitTriple == pageSize * 3

LimitSingle == pageSize

\* this.limit (NaN when pageSize is missing: see Grow)
Limit == pageSize * 2

NoOp == [op |-> "init", entries |-> <<>>, page |-> 0, data |-> <<>>,
         created |-> <<>>, updated |-> <<>>, layout |-> "none",
         error |-> "none"]

\* ---- small sequence helpers (Array.prototype.slice / at / concat) ----
\* pool.slice(from) and pool.slice(0, to), 0-based as in the source
SliceTo(s, to) == SubSeq(s, 1, IF to < Len(s) THEN to ELSE Len(s))
SliceFrom(s, from) == SubSeq(s, from + 1, Len(s))

\* pool.at(i), 0-based, negative indices count from the end; 0 is undefined
At(s, i) ==
  LET j == IF i < 0 THEN i + Len(s) ELSE i
  IN  IF j >= 0 /\ j < Len(s) THEN s[j + 1] ELSE 0

\* ---- y(element, value) ----
\* y(element): the data-y attribute as a number, or null (<<>>)
Y(vs, element) == IF element = 0 THEN <<>> ELSE vs[element].dataY

\* the effect of y(element, value) with a number value on the elements
SetY(vs, element, value) ==
  IF element = 0 THEN vs ELSE [vs EXCEPT ![element].dataY = <<value>>]

\* ToNumber of y()'s result where the source does arithmetic on it
Num(m) == IF m = <<>> THEN 0 ELSE m[1]

translateY(value) == <<value>>

\* element.getBoundingClientRect().height: the height of the bound record
HeightOf(vs, element) == vs[element].datum.h

\* ---- #updateData ----
\* props.updateTemplate(datum, element): the host rebinds the element
UpdateTemplate(vs, datum, element) ==
  IF element = 0 THEN vs ELSE [vs EXCEPT ![element].datum = datum]

RECURSIVE UpdateData(_, _, _, _)
UpdateData(vs, elements, data, i) ==
  IF i > Len(data) THEN vs
  ELSE UpdateData(UpdateTemplate(vs, data[i], At(elements, i - 1)),
                  elements, data, i + 1)

\* the updateTemplate calls #updateData makes: <<datum, element>> in call order
UpdateCalls(elements, data) ==
  [i \in 1..Len(data) |-> <<data[i], At(elements, i - 1)>>]

\* ---- #updateElementsPosition ----
NewYDownOneMargin(vs, prev) == Y(vs, prev)[1] + MARGIN + HeightOf(vs, prev)

\* newY of the "down" loop, y(prev) being a number
NewYDown(vs, prev) == Y(vs, prev)[1] + MARGIN * 2 + HeightOf(vs, prev)

NewYTopNoHeight(vs, curr, next) == Num(Y(vs, next)) - MARGIN * 2

\* newY of the "top" loop
NewYTop(vs, curr, next) == Num(Y(vs, next)) - MARGIN * 2 - HeightOf(vs, curr)

BottomYNoHeight(vs, last) == Num(Y(vs, last)) + MARGIN * 2

\* bottomY, the position of the bottom sentinel
BottomY(vs, last) == Num(Y(vs, last)) + MARGIN * 2 + HeightOf(vs, last)

\* the "down" loop from index i (0-based) on
RECURSIVE DownPass(_, _, _)
DownPass(vs, p, i) ==
  IF i >= Len(p) THEN vs
  ELSE LET prev == At(p, i - 1)
           curr == p[i + 1]
       IN  IF Y(vs, prev) = <<>>
           THEN DownPass(SetY(vs, curr, 0), p, i + 1)
           ELSE LET newY == NewYDown(vs, prev)
                IN  DownPass([SetY(vs, curr, newY) EXCEPT
                                ![curr].transform = translateY(newY)],
                             p, i + 1)

\* the "top" loop from index i (0-based) down to 0
RECURSIVE TopPass(_, _, _)
TopPass(vs, p, i) ==
  IF i < 0 THEN vs
  ELSE LET curr == p[i + 1]
           next == At(p, i + 1)
           newY == NewYTop(vs, curr, next)
       IN  TopPass([SetY(vs, curr, newY) EXCEPT
                      ![curr].transform = translateY(newY)],
                   p, i - 1)

\* The whole pass.  On an empty pool  last  is undefined and
\* last.getBoundingClientRect() throws before the sentinels are moved.
UpdateElementsPosition(vs, p, direction, top, bottom) ==
  LET vs1 == IF direction = "down" THEN DownPass(vs, p, 0)
             ELSE IF direction = "top" /\ props.pageSize
                  THEN TopPass(vs, p, pageSize - 1)
             ELSE vs
      first == At(p, 0)
      last == At(p, -1)
  IN  IF last = 0
      THEN [views |-> vs1, top |-> top, bottom |-> bottom, threw |-> TRUE]
      ELSE LET topY == Y(vs1, first)
               bottomY == BottomY(vs1, last)
           IN  [views |-> vs1,
                top |-> IF topY = <<>> THEN top ELSE translateY(topY[1]),
                bottom |-> translateY(bottomY),
                threw |-> FALSE]

\* ---- #handleIntersectionObserver ----
BottomCallNoAdvance(s) ==
  [s EXCEPT !.calls = Append(s.calls, s.end),
            !.pending = Append(s.pending, [kind |-> "bottom", page |-> s.end])]

\* the part of #handleBottomObserver before its await: getPage(this.end++)
\* Without props.getPage the argument this.end++ is still evaluated before
\* the call throws a TypeError, which rejects the reaction's promise.
BottomCall(s) ==
  IF props.getPage
  THEN [s EXCEPT !.calls = Append(s.calls, s.end),
                 !.pending = Append(s.pending,
                                    [kind |-> "bottom", page |-> s.end]),
                 !.end = s.end + 1]
  ELSE [s EXCEPT !.end = s.end + 1, !.error = "TypeError"]

\* the part of #handleTopObserver before its await
TopCall(s) ==
  IF props.getPage
  THEN [s EXCEPT !.start = s.start - 1,
                 !.end = s.end - 1,
                 !.calls = Append(s.calls, s.start - 1),
                 !.pending = Append(s.pending,
                                    [kind |-> "top", page |-> s.start - 1])]
  ELSE [s EXCEPT !.start = s.start - 1, !.end = s.end - 1,
                 !.error = "TypeError"]

TopGuardNoStart(entry, s) == entry.target = TOP

\* the condition under which an intersecting entry starts #handleTopObserver
TopGuard(entry, s) == entry.target = TOP /\ s.start > 0

HandleEntryInFlightGuard(s, entry) ==
  IF entry.isIntersecting /\ s.pending = <<>>
  THEN IF TopGuard(entry, s) THEN TopCall(s)
       ELSE IF entry.target = BOTTOM THEN BottomCall(s)
       ELSE s
  ELSE s

\* the body of the loop over the entries
HandleEntry(s, entry) ==
  IF entry.isIntersecting
  THEN IF TopGuard(entry, s) THEN TopCall(s)
       ELSE IF entry.target = BOTTOM THEN BottomCall(s)
       ELSE s
  ELSE s

RECURSIVE HandleEntries(_, _, _)
HandleEntries(s, entries, i) ==
  IF i > Len(entries) THEN s
  ELSE HandleEntries(HandleEntry(s, entries[i]), entries, i + 1)

\* ---- inputs ----
Entry(t, b) == [target |-> t, isIntersecting |-> b]

\* what the observer can report in one callback: each sentinel at most once
EntryBatches ==
  {<<Entry(t, b)>> : t \in {TOP, BOTTOM}, b \in BOOLEAN}
  \cup {<<Entry(t[1], b1), Entry(t[2], b2)>> :
          t \in {<<TOP, BOTTOM>>, <<BOTTOM, TOP>>}, b1 \in BOOLEAN, b2 \in BOOLEAN}

\* batches that start at most one reaction
SingleBatches ==
  {es \in EntryBatches :
     Cardinality({i \in 1..Len(es) : es[i].isIntersecting}) <= 1}

\* A data source whose records never change: the first k records of page p,
\* the height of a record's card depending on the record.
StablePageData(p, k) ==
  {[i \in 1..k |->
      [page |-> p, idx |-> i, h |-> IF (p + i) % 2 = 0 THEN 20 ELSE 50]]}

\* A data source whose pages change between fetches: the first k records of
\* page p, their cards all of one height, any of Heights.
UniformPageData(p, k) ==
  {[i \in 1..k |-> [page |-> p, idx |-> i, h |-> x]] : x \in Heights}

Remove(s, i) == SubSeq(s, 1, i - 1) \o SubSeq(s, i + 1, Len(s))

\* ---- actions ----
\* the observer callback with one batch of entries
Observe(batches, cap) ==
  \E entries \in batches :
    /\ LET s == HandleEntries([start |-> start, end |-> end,
                               pending |-> pending, calls |-> calls,
                               error |-> "none"],
                              entries, 1)
       IN  /\ Len(s.calls) <= cap
           /\ s.end <= cap
           /\ start' = s.start
           /\ end' = s.end
           /\ pending' = s.pending
           /\ calls' = s.calls
           /\ lastOp' = [NoOp EXCEPT !.op = "observe", !.entries = entries,
                           !.error = s.error]
    /\ UNCHANGED <<props, pageSize, pool, views, topSentinel, bottomSentinel>>

BottomSplitTail(p) ==
  [toRecycle |-> SliceFrom(p, Len(p) - pageSize),
   unchanged |-> SliceTo(p, Len(p) - pageSize)]

\* [toRecycle, unchanged] of #handleBottomObserver
\* (slice(0, undefined) and slice(undefined) are both the whole array)
BottomSplit(p) ==
  IF props.pageSize
  THEN [toRecycle |-> SliceTo(p, pageSize), unchanged |-> SliceFrom(p, pageSize)]
  ELSE [toRecycle |-> p, unchanged |-> p]

TopSplitHead(p) ==
  [unchanged |-> SliceFrom(p, pageSize), toRecycle |-> SliceTo(p, pageSize)]

\* [unchanged, toRecycle] of #handleTopObserver
TopSplit(p) ==
  IF props.pageSize
  THEN [unchanged |-> SliceTo(p, pageSize), toRecycle |-> SliceFrom(p, pageSize)]
  ELSE [unchanged |-> p, toRecycle |-> p]

\* this.pool.length < this.limit, false when the limit is NaN
Grow(p) == props.pageSize /\ Len(p) < Limit

\* the views getTemplate creates for data, numbered after the existing ones
NewViews(vs, data) ==
  [i \in 1..Len(data) |-> [datum |-> data[i], dataY |-> <<>>, transform |-> <<>>]]

\* #handleBottomObserver from its await on, the fetch having resolved to data
\* (container.style.height, line 164, follows the rendered scrollHeight and
\* is read by nothing here; it is not part of the state)
BottomResume(i, data) ==
  LET grow == Grow(pool)
      ids == [j \in 1..Len(data) |-> Len(views) + j]
      toRecycle == BottomSplit(pool).toRecycle
      unchanged == BottomSplit(pool).unchanged
      pool1 == IF grow THEN pool \o ids ELSE unchanged \o toRecycle
      views1 == IF grow THEN views \o NewViews(views, data)
                ELSE UpdateData(views, toRecycle, data, 1)
      r == UpdateElementsPosition(views1, pool1, "down",
                                  topSentinel, bottomSentinel)
      \* props.getTemplate is not a function: the first call throws
      noTemplate == grow /\ ~props.getTemplate /\ data # <<>>
  IN  /\ pending' = Remove(pending, i)
      /\ IF noTemplate
         THEN /\ UNCHANGED <<pool, views, start, topSentinel, bottomSentinel>>
              /\ lastOp' = [NoOp EXCEPT !.op = "bottom",
                              !.page = pending[i].page, !.data = data,
                              !.error = "TypeError"]
         ELSE /\ pool' = pool1
              /\ views' = r.views
              /\ start' = IF grow THEN start ELSE start + 1
              /\ topSentinel' = r.top
              /\ bottomSentinel' = r.bottom
              /\ lastOp' = [NoOp EXCEPT !.op = "bottom",
                              !.page = pending[i].page,
                              !.data = data,
                              !.created = IF grow THEN ids ELSE <<>>,
                              !.updated = IF grow THEN <<>>
                                          ELSE UpdateCalls(toRecycle, data),
                              !.layout = IF r.threw THEN "down-threw"
                                         ELSE "down",
                              !.error = IF r.threw THEN "TypeError"
                                        ELSE "none"]
      /\ UNCHANGED <<props, pageSize, end, calls>>

\* #handleTopObserver from its await on
TopResume(i, data) ==
  LET unchanged == TopSplit(pool).unchanged
      toRecycle == TopSplit(pool).toRecycle
      pool1 == toRecycle \o unchanged
      views1 == UpdateData(views, toRecycle, data, 1)
      r == UpdateElementsPosition(views1, pool1, "top",
                                  topSentinel, bottomSentinel)
  IN  /\ pending' = Remove(pending, i)
      /\ pool' = pool1
      /\ views' = r.views
      /\ topSentinel' = r.top
      /\ bottomSentinel' = r.bottom
      /\ lastOp' = [NoOp EXCEPT !.op = "top", !.page = pending[i].page,
                      !.data = data,
                      !.updated = UpdateCalls(toRecycle, data),
                      !.layout = IF r.threw THEN "top-threw" ELSE "top",
                      !.error = IF r.threw THEN "TypeError" ELSE "none"]
      /\ UNCHANGED <<props, pageSize, start, end, calls>>

\* a bottom fetch resolves with a page of exactly pageSize records
BottomResolves ==
  \E i \in 1..Len(pending) :
    /\ pending[i].kind = "bottom"
    /\ \E data \in StablePageData(pending[i].page, pageSize) :
         BottomResume(i, data)

\* a top fetch resolves with a page of exactly pageSize records
TopResolves ==
  \E i \in 1..Len(pending) :
    /\ pending[i].kind = "top"
    /\ \E data \in StablePageData(pending[i].page, pageSize) :
         TopResume(i, data)

\* a bottom fetch resolves with 0..pageSize records
BottomResolvesShort ==
  \E i \in 1..Len(pending) :
    /\ pending[i].kind = "bottom"
    /\ \E k \in 0..pageSize :
         \E data \in UniformPageData(pending[i].page, k) : BottomResume(i, data)

\* a top fetch resolves with 0..pageSize records
TopResolvesShort ==
  \E i \in 1..Len(pending) :
    /\ pending[i].kind = "top"
    /\ \E k \in 0..pageSize :
         \E data \in UniformPageData(pending[i].page, k) : TopResume(i, data)

\* getPage rejects: the await throws and the rest of the reaction never runs
FetchRejects ==
  \E i \in 1..Len(pending) :
    /\ pending' = Remove(pending, i)
    /\ lastOp' = [NoOp EXCEPT !.op = "reject-" \o pending[i].kind,
                    !.page = pending[i].page]
    /\ UNCHANGED <<props, pageSize, start, end, pool, views, topSentinel,
                   bottomSentinel, calls>>

ObserveAny == Observe(EntryBatches, MaxCalls)

\* one reaction at a time: the next callback comes when nothing is pending
ObserveIdle == pending = <<>> /\ Observe(SingleBatches, MaxCalls)

\* the same, for the runs with short pages
ObserveIdleShort == pending = <<>> /\ Observe(SingleBatches, MaxShortCalls)

\* a bottom fetch resolves with pageSize records of a changing source
BottomResolvesUniform ==
  \E i \in 1..Len(pending) :
    /\ pending[i].kind = "bottom"
    /\ \E data \in UniformPageData(pending[i].page, pageSize) :
         BottomResume(i, data)

\* a top fetch resolves with pageSize records of a changing source
TopResolvesUniform ==
  \E i \in 1..Len(pending) :
    /\ pending[i].kind = "top"
    /\ \E data \in UniformPageData(pending[i].page, pageSize) :
         TopResume(i, data)

\* a bottom fetch resolves with 1..pageSize records
BottomResolvesPartial ==
  \E i \in 1..Len(pending) :
    /\ pending[i].kind = "bottom"
    /\ \E k \in 1..pageSize :
         \E data \in UniformPageData(pending[i].page, k) : BottomResume(i, data)

\* a top fetch resolves with 1..pageSize records
TopResolvesPartial ==
  \E i \in 1..Len(pending) :
    /\ pending[i].kind = "top"
    /\ \E k \in 1..pageSize :
         \E data \in UniformPageData(pending[i].page, k) : TopResume(i, data)

\* ---- specifications ----
\* a configuration with every prop supplied
FullProps == [getPage |-> TRUE, getTemplate |-> TRUE, pageSize |-> TRUE]

\* the state after the constructor and render()
InitWith(sizes) ==
  /\ props = FullProps
  /\ pageSize \in sizes
  /\ start = 0
  /\ end = 0
  /\ pool = <<>>
  /\ views = <<>>
  /\ pending = <<>>
  /\ topSentinel = <<>>
  /\ bottomSentinel = <<>>
  /\ calls = <<>>
  /\ lastOp = NoOp

Init == InitWith(1..MaxPageSize)

\* events in any interleaving, every page full and from a stable source,
\* fetches may fail
Next == ObserveAny \/ BottomResolves \/ TopResolves \/ FetchRejects
Spec == Init /\ [][Next]_vars

\* one reaction at a time, pages of 0..pageSize records, fetches may fail
NextShort == ObserveIdleShort \/ BottomResolvesShort \/ TopResolvesShort \/ FetchRejects
SpecShort == Init /\ [][NextShort]_vars

\* one reaction at a time, every fetch succeeds with 1..pageSize records
NextPartial == ObserveIdle \/ BottomResolvesPartial \/ TopResolvesPartial
SpecPartial == Init /\ [][NextPartial]_vars

\* any configuration, complete or not: the constructor and render() take
\* the props as given; one reaction at a time
InitConfig ==
  /\ props \in [getPage : BOOLEAN, getTemplate : BOOLEAN, pageSize : BOOLEAN]
  /\ pageSize \in 1..MaxPageSize
  /\ start = 0
  /\ end = 0
  /\ pool = <<>>
  /\ views = <<>>
  /\ pending = <<>>
  /\ topSentinel = <<>>
  /\ bottomSentinel = <<>>
  /\ calls = <<>>
  /\ lastOp = NoOp
NextConfig == ObserveIdle \/ BottomResolves \/ TopResolves
SpecConfig == InitConfig /\ [][NextConfig]_vars

\* one reaction at a time, every fetch succeeds with a full page
InitSeq == InitWith((1..MaxPageSize) \cup {5})
NextSeq == ObserveIdle \/ BottomResolvesUniform \/ TopResolvesUniform
SpecSeq == InitSeq /\ [][NextSeq]_vars

\* ---- properties ----
HasPending(kind) == \E i \in 1..Len(pending) : pending[i].kind = kind

\* the records bound to the views of p, in the order of p
Bound(vs, p) == [i \in 1..Len(p) |-> vs[p[i]].datum]

\* C1: with full pages, in every reachable state (any interleaving of
\* events, resolutions and failures) the pool holds at most 2 * pageSize views.
C1_PoolBounded == Len(pool) <= 2 * pageSize

\* a recycle on a full pool has just run while another fetch is pending
C1_Witness ==
  /\ Len(pool) = 2 * pageSize
  /\ lastOp.op = "bottom"
  /\ lastOp.updated # <<>>
  /\ pending # <<>>

\* C2: a bottom event calls getPage with end and then increments end; when
\* its reaction resumes on a pool of 2 * pageSize views with pageSize records,
\* start goes up by 1, end is untouched, the pool keeps its length, the first
\* pageSize views of the prior pool are rebound, the i-th to the i-th record,
\* no other view is rebound or created, and the new pool is the prior tail
\* followed by the rebound views.
C2_RecycleDown ==
  [][ /\ (lastOp'.op = "observe" /\ lastOp'.entries = <<Entry(BOTTOM, TRUE)>>)
         => /\ calls' = Append(calls, end)
            /\ end' = end + 1
            /\ start' = start
            /\ pending' = Append(pending, [kind |-> "bottom", page |-> end])
      /\ (lastOp'.op = "bottom" /\ Len(pool) = 2 * pageSize
          /\ Len(lastOp'.data) = pageSize)
         => /\ start' = start + 1
            /\ end' = end
            /\ Len(pool') = 2 * pageSize
            /\ pool' = SubSeq(pool, pageSize + 1, 2 * pageSize)
                         \o SubSeq(pool, 1, pageSize)
            /\ lastOp'.created = <<>>
            /\ lastOp'.updated =
                 [i \in 1..pageSize |-> <<lastOp'.data[i], pool[i]>>]
            /\ \A i \in 1..pageSize : views'[pool[i]].datum = lastOp'.data[i]
            /\ \A i \in pageSize + 1..2 * pageSize :
                 views'[pool[i]].datum = views[pool[i]].datum
            /\ \A i \in 1..pageSize : lastOp'.data[i].page = lastOp'.page
            /\ \E i \in 1..Len(pending) :
                 pending[i] = [kind |-> "bottom", page |-> lastOp'.page]
    ]_vars

\* a recycle-down has completed on views that were bound to other records
C2_Witness ==
  /\ lastOp.op = "bottom"
  /\ Len(lastOp.updated) = pageSize
  /\ start >= 1
  /\ pageSize >= 2
  /\ pool[1] # 1

C4_TopAtZeroNoOp ==
  [][ (lastOp'.op = "observe" /\ lastOp'.entries = <<Entry(TOP, TRUE)>>
       /\ start = 0)
      => UNCHANGED <<start, end, pool, views, pending, topSentinel,
                     bottomSentinel, calls>> ]_vars

\* the top sentinel was reported with start = 0 on a pool that a recycle-up
\* had brought back to page 0, and nothing was started
C4_Witness ==
  /\ lastOp.op = "observe"
  /\ lastOp.entries = <<Entry(TOP, TRUE)>>
  /\ start = 0
  /\ pending = <<>>
  /\ Len(pool) = 2 * pageSize
  /\ \E i \in 1..Len(calls) : i > 1 /\ calls[i] = 0

\* C5: a bottom reaction that resumes with fewer than 2 * pageSize views
\* pooled appends one new view per fetched record, in record order, keeps
\* the prior pool as a prefix, rebinds nothing and leaves start alone.
C5_Append ==
  [][ (lastOp'.op = "bottom" /\ Len(pool) < 2 * pageSize)
      => LET data == lastOp'.data
         IN  /\ Len(pool') = Len(pool) + Len(data)
             /\ SubSeq(pool', 1, Len(pool)) = pool
             /\ \A j \in 1..Len(data) :
                  /\ pool'[Len(pool) + j] > Len(views)
                  /\ views'[pool'[Len(pool) + j]].datum = data[j]
             /\ \A j, k \in 1..Len(pool') : j # k => pool'[j] # pool'[k]
             /\ lastOp'.updated = <<>>
             /\ \A v \in 1..Len(views) : views'[v].datum = views[v].datum
             /\ start' = start
    ]_vars

\* a short page was appended behind views that were already pooled
C5_Witness ==
  /\ lastOp.op = "bottom"
  /\ lastOp.created # <<>>
  /\ Len(lastOp.created) < pageSize
  /\ Len(pool) > Len(lastOp.created)
  /\ Len(pool) <= 2 * pageSize

\* C6: start is never negative and getPage is never called with a negative
\* page index, whatever the interleaving of events, resolutions and failures.
C6_StartNonNegative ==
  /\ start >= 0
  /\ \A i \in 1..Len(calls) : calls[i] >= 0

\* a fetch has just failed while a top reaction that brought start to 0 is
\* still suspended
C6_Witness ==
  /\ start = 0
  /\ HasPending("top")
  /\ lastOp.op = "reject-bottom"

\* C7: with pageSize = 5 and one reaction at a time, the first three calls
\* are getPage(0), getPage(1), getPage(2); the pool holds 5, 10, 10 views
\* after them, with start = 1 and end = 3 after the third; a top event next
\* calls getPage(0), leaves start = 0 and end = 2 and moves the last five
\* pooled views to the front, rebound to the fetched records.
C7_EndToEnd ==
  pageSize = 5 =>
    /\ \A k \in 1..3 : Len(calls) >= k => calls[k] = k - 1
    /\ (calls = <<0>> /\ pending = <<>>) =>
         (Len(pool) = 5 /\ start = 0 /\ end = 1)
    /\ (calls = <<0, 1>> /\ pending = <<>>) =>
         (Len(pool) = 10 /\ start = 0 /\ end = 2)
    /\ (calls = <<0, 1, 2>> /\ pending = <<>>) =>
         /\ Len(pool) = 10
         /\ start = 1
         /\ end = 3
         /\ pool = <<6, 7, 8, 9, 10, 1, 2, 3, 4, 5>>
    /\ (Len(calls) = 4 /\ lastOp.op = "observe"
        /\ lastOp.entries = <<Entry(TOP, TRUE)>>) =>
         (calls = <<0, 1, 2, 0>> /\ start = 0 /\ end = 2)
    /\ (calls = <<0, 1, 2, 0>> /\ pending = <<>> /\ lastOp.op = "top") =>
         /\ start = 0
         /\ end = 2
         /\ pool = <<1, 2, 3, 4, 5, 6, 7, 8, 9, 10>>
         /\ lastOp.updated = [i \in 1..5 |-> <<lastOp.data[i], i>>]
         /\ \A i \in 1..5 : views[i].datum = lastOp.data[i]
         /\ \A i \in 1..5 : lastOp.data[i].page = 0
         /\ \A i \in 6..10 : views[i].datum.page = 1

\* the four events of the trace have run to completion
C7_Witness ==
  /\ pageSize = 5
  /\ calls = <<0, 1, 2, 0>>
  /\ pending = <<>>
  /\ lastOp.op = "top"

\* the stored positions of the views of p, in the order of p
Positions(vs, p) == [i \in 1..Len(p) |-> vs[p[i]].dataY]

\* C8: a non-empty pool of fewer than 2 * pageSize views was last laid out
\* by a down pass (only appends have touched it); when a bottom reaction
\* then resumes with zero records, the pool and every height are as they
\* were, and the down pass it runs leaves every stored position and both
\* sentinels as the first pass left them.
C8_DownIdempotent ==
  [][ (pool # <<>> /\ Len(pool) < 2 * pageSize
       /\ lastOp'.op = "bottom" /\ lastOp'.data = <<>>)
      => /\ pool' = pool
         /\ Positions(views', pool') = Positions(views, pool)
         /\ topSentinel' = topSentinel
         /\ bottomSentinel' = bottomSentinel ]_vars

\* C9: after a down pass, every pooled view but the first is stored at its
\* predecessor's position plus the predecessor's height plus 2 * 16.
C9_DownAdjacent ==
  lastOp.layout = "down" =>
    \A i \in 2..Len(pool) :
      LET prev == pool[i - 1]
          curr == pool[i]
      IN  /\ views[prev].dataY # <<>>
          /\ views[curr].dataY =
               <<views[prev].dataY[1] + views[prev].datum.h + 2 * 16>>

\* a down pass has run after a recycle on a pool whose views differ in height
C9_Witness ==
  /\ lastOp.layout = "down"
  /\ lastOp.updated # <<>>
  /\ Len(pool) >= 4
  /\ \E i, j \in 1..Len(pool) : views[pool[i]].datum.h # views[pool[j]].datum.h

\* C10: after a layout pass in either mode on a non-empty pool, the top
\* sentinel is at the first pooled view's stored position and the bottom
\* sentinel at the last pooled view's position plus its height plus 2 * 16.
C10_SentinelBracket ==
  (lastOp.layout \in {"down", "top"} /\ pool # <<>>) =>
    LET first == pool[1]
        last == pool[Len(pool)]
    IN  /\ views[first].dataY # <<>>
        /\ views[last].dataY # <<>>
        /\ topSentinel = views[first].dataY
        /\ bottomSentinel =
             <<views[last].dataY[1] + views[last].datum.h + 2 * 16>>

\* a top pass has run and moved the top sentinel above the origin
C10_Witness ==
  /\ lastOp.layout = "top"
  /\ pool # <<>>
  /\ topSentinel # <<>>
  /\ topSentinel[1] < 0

WindowRecords(a, b) ==
  [j \in 1..(IF b > a THEN pageSize * (b - a) ELSE 0) |->
     <<a + ((j - 1) \div pageSize), ((j - 1) % pageSize) + 1>>]

\* the <<page, idx>> of the records bound to the pooled views, in pool order
PoolRecords ==
  [j \in 1..Len(pool) |-> <<views[pool[j]].datum.page, views[pool[j]].datum.idx>>]

\* C12: nothing guards against a reaction in flight: an intersecting bottom
\* entry handled while a fetch is pending calls getPage(end) and advances
\* end at once, an intersecting top entry with start > 0 calls
\* getPage(start - 1) and moves both cursors back at once, and a resolved
\* fetch is applied to the pool whatever its place among the pending ones.
C12_NoInFlightGuard ==
  [][ /\ (lastOp'.op = "observe" /\ pending # <<>>
          /\ lastOp'.entries = <<Entry(BOTTOM, TRUE)>>)
         => /\ calls' = Append(calls, end)
            /\ end' = end + 1
            /\ pending' = Append(pending, [kind |-> "bottom", page |-> end])
      /\ (lastOp'.op = "observe" /\ pending # <<>> /\ start > 0
          /\ lastOp'.entries = <<Entry(TOP, TRUE)>>)
         => /\ calls' = Append(calls, start - 1)
            /\ start' = start - 1
            /\ end' = end - 1
            /\ pending' = Append(pending, [kind |-> "top", page |-> start - 1])
      /\ (lastOp'.op \in {"bottom", "top"} /\ lastOp'.data # <<>>)
         => /\ \E i \in 1..Len(pending) :
                 /\ pending[i] = [kind |-> lastOp'.op, page |-> lastOp'.page]
                 /\ pending' = Remove(pending, i)
            /\ \E j \in 1..Len(pool') :
                 views'[pool'[j]].datum = lastOp'.data[1]
    ]_vars

\* two bottom fetches resolved in the opposite order to their triggers:
\* nothing is pending, the pool holds the records of pages start..end-1,
\* the later page first
C12_Witness ==
  /\ pending = <<>>
  /\ pool # <<>>
  /\ Len(pool) = pageSize * (end - start)
  /\ {PoolRecords[j] : j \in 1..Len(pool)}
       = {WindowRecords(start, end)[j] : j \in 1..Len(pool)}
  /\ PoolRecords # WindowRecords(start, end)
  /\ views[pool[1]].datum.page > views[pool[Len(pool)]].datum.page
  /\ lastOp.op = "bottom"
  /\ lastOp.page = start

\* some entry of the batch is the intersecting sentinel t
Fired(entries, t) == \E i \in 1..Len(entries) : entries[i] = Entry(t, TRUE)

\* C13: a failed bottom fetch leaves the pool, the views, the sentinels and
\* start as they were; end stays one past the failed page, so the next
\* bottom event asks for the page after it.  A failed top fetch leaves the
\* pool as it was and start (at the failed page) and end decremented.
C13_FetchFailure ==
  [][ /\ (lastOp'.op = "observe" /\ Fired(lastOp'.entries, BOTTOM))
         => (end' = end + 1 /\ start' = start)
      /\ (lastOp'.op = "observe" /\ Fired(lastOp'.entries, TOP) /\ start > 0)
         => (start' = start - 1 /\ end' = end - 1)
      /\ lastOp'.op \in {"reject-bottom", "reject-top"}
         => /\ UNCHANGED <<start, end, pool, views, topSentinel,
                           bottomSentinel, calls>>
            /\ lastOp'.layout = "none"
            /\ lastOp'.created = <<>>
            /\ lastOp'.updated = <<>>
            /\ calls[Len(calls)] = lastOp'.page
      /\ lastOp'.op = "reject-bottom" => end' = lastOp'.page + 1
      /\ lastOp'.op = "reject-top" => start' = lastOp'.page
      /\ (lastOp.op = "reject-bottom" /\ lastOp'.op = "observe"
          /\ Fired(lastOp'.entries, BOTTOM))
         => calls' = Append(calls, lastOp.page + 1)
    ]_vars

\* a bottom fetch has just failed in the recycle phase
C13_Witness ==
  /\ lastOp.op = "reject-bottom"
  /\ start > 0
  /\ Len(pool) = 2 * pageSize
  /\ end = lastOp.page + 1

ConfigComplete == props.getPage /\ props.getTemplate /\ props.pageSize

\* C14: a component whose configuration lacks getPage, getTemplate or
\* pageSize is stopped at initialization: it never starts a fetch, never
\* moves a cursor and never has a reaction fail while handling a boundary
\* event.
C14_ConfigFailsFast ==
  ~ConfigComplete =>
    /\ lastOp.error = "none"
    /\ calls = <<>>
    /\ start = 0
    /\ end = 0

\* C15: after a top pass on a pool of 2 * pageSize views, each of the first
\* pageSize views is stored at its successor's position minus its own height
\* minus 2 * 16, every adjacent pair of the pool is contiguous in that way,
\* and the last pageSize views (the ones not recycled) keep the positions
\* they had before the pass.
C15_TopContiguous ==
  [][ (lastOp'.layout = "top" /\ Len(pool') = 2 * pageSize)
      => /\ \A i \in 1..2 * pageSize - 1 :
              /\ views'[pool'[i]].dataY # <<>>
              /\ views'[pool'[i + 1]].dataY # <<>>
              /\ views'[pool'[i]].dataY[1] =
                   views'[pool'[i + 1]].dataY[1]
                     - views'[pool'[i]].datum.h - 2 * 16
         /\ \A i \in pageSize + 1..2 * pageSize :
              /\ views'[pool'[i]].dataY = views[pool'[i]].dataY
              /\ views'[pool'[i]].datum = views[pool'[i]].datum
    ]_vars

\* a top pass has run on views whose heights differ
C15_Witness ==
  /\ lastOp.layout = "top"
  /\ Len(pool) = 2 * pageSize
  /\ Len(lastOp.updated) = pageSize
  /\ \E i, j \in 1..Len(pool) : views[pool[i]].datum.h # views[pool[j]].datum.h
  /\ views[pool[1]].dataY[1] < 0

\* the views of a pool, as a set
PoolSet(p) == {p[j] : j \in 1..Len(p)}

C17_PoolBoundedShortPages == Len(pool) <= 2 * pageSize

\* C18: a recycle whose fetch brings k < pageSize records still moves a
\* recycle set of exactly pageSize views as a whole (a bottom recycle the
\* first pageSize views to the tail with start + 1, a top recycle the last
\* pageSize views to the head), rebinds the first k of them and leaves the
\* other pageSize - k pooled with the records they had.
C18_ShortRecycle ==
  [][ /\ (lastOp'.op = "bottom" /\ Len(pool) >= 2 * pageSize
          /\ Len(lastOp'.data) < pageSize)
         => LET n == Len(pool)
                k == Len(lastOp'.data)
                set == SubSeq(pool, 1, pageSize)
            IN  /\ pool' = SubSeq(pool, pageSize + 1, n) \o set
                /\ start' = start + 1
                /\ lastOp'.updated = [j \in 1..k |-> <<lastOp'.data[j], set[j]>>]
                /\ \A j \in 1..k : views'[set[j]].datum = lastOp'.data[j]
                /\ \A j \in k + 1..pageSize :
                     views'[set[j]].datum = views[set[j]].datum
      /\ (lastOp'.op = "top" /\ Len(lastOp'.data) < pageSize)
         => LET n == Len(pool)
                k == Len(lastOp'.data)
                set == SubSeq(pool, n - pageSize + 1, n)
            IN  /\ pool' = set \o SubSeq(pool, 1, n - pageSize)
                /\ lastOp'.updated = [j \in 1..k |-> <<lastOp'.data[j], set[j]>>]
                /\ \A j \in 1..k : views'[set[j]].datum = lastOp'.data[j]
                /\ \A j \in k + 1..pageSize :
                     views'[set[j]].datum = views[set[j]].datum
      /\ (lastOp'.op = "observe" /\ Fired(lastOp'.entries, TOP) /\ start > 0)
         => (start' = start - 1 /\ end' = end - 1)
      /\ (lastOp'.op = "observe" /\ Fired(lastOp'.entries, BOTTOM))
         => end' = end + 1
    ]_vars


\* C19: in sequential operation with full pages, after each reaction
\* start <= end, the pool holds pageSize * (end - start) views, and the views
\* in pool order show the records of pages start .. end - 1 in page order and
\* in record order within each page.
C19_WindowConsistent ==
  pending = <<>> =>
    /\ start <= end
    /\ Len(pool) = pageSize * (end - start)
    /\ PoolRecords = WindowRecords(start, end)

\* a top recycle has completed on a window that had moved down
C19_Witness ==
  /\ pending = <<>>
  /\ lastOp.op = "top"
  /\ Len(lastOp.updated) = pageSize
  /\ end - start = 2
  /\ PoolRecords = WindowRecords(start, end)

\* C20: on a bottom reaction with a full pool, the pageSize views that are
\* not recycled keep the position they had before the reaction; the recycled
\* views are placed below them.
C20_RecycleDownKeepsPositions ==
  [][ (lastOp'.op = "bottom" /\ Len(pool) = 2 * pageSize
       /\ Len(lastOp'.data) = pageSize)
      => /\ \A j \in pageSize + 1..2 * pageSize :
              Y(views', pool[j]) = Y(views, pool[j])
         /\ \A i \in 1..pageSize : \A j \in pageSize + 1..2 * pageSize :
              Num(Y(views', pool[i])) > Num(Y(views', pool[j]))
    ]_vars

====
